---- MODULE Spec2Model ----
(***************************************************************************)
(* Cloudflare Worker of src/src/index.js: a request router over a KV       *)
(* namespace (keys "clients" and "tasks"), a Telegram webhook and the      *)
(* WebApp initData verification.                                           *)
(*                                                                         *)
(* A JavaScript object is a property list: a sequence of <<key, value>>    *)
(* pairs with distinct keys, in insertion order.  A JSON text is a         *)
(* sequence of tokens.  A string that the code inspects character by       *)
(* character (the initData keys and values, the canonical string, the hex  *)
(* digest) is a sequence of character codes.                               *)
(***************************************************************************)
EXTENDS Integers, Sequences, FiniteSets, TLC

\* ------------------------------------------------------------- bounds
MaxReqs == 2
MaxClock == 3
MaxLen == 2
MaxPairs == 3

Reqs == 1..MaxReqs

VARIABLES env, store, clock, outbox, pc, req, loc, resp

vars == <<env, store, clock, outbox, pc, req, loc, resp>>

\* ------------------------------------------------------------- objects
RECURSIVE IndexOfKey(_, _, _)
IndexOfKey(obj, k, i) ==
  IF i > Len(obj) THEN 0
  ELSE IF obj[i][1] = k THEN i
  ELSE IndexOfKey(obj, k, i + 1)

Has(obj, k) == IndexOfKey(obj, k, 1) # 0

Get(obj, k) == obj[IndexOfKey(obj, k, 1)][2]

\* obj[k] = v: an existing key keeps its place, a new key goes last.
SetProp(obj, k, v) ==
  IF Has(obj, k)
  THEN [obj EXCEPT ![IndexOfKey(obj, k, 1)] = <<k, v>>]
  ELSE Append(obj, <<k, v>>)

\* delete obj[k]
DelProp(obj, k) ==
  SelectSeq(obj, LAMBDA p : p[1] # k)

\* { ...target, ...src }: the properties of src are set on target in order.
RECURSIVE Spread(_, _)
Spread(target, src) ==
  IF src = <<>> THEN target
  ELSE Spread(SetProp(target, Head(src)[1], Head(src)[2]), Tail(src))

\* Object.fromEntries(pairs): a later pair with the same key overwrites.
ObjectFromEntries(pairs) == Spread(<<>>, pairs)

\* Object.keys(obj), for keys that are not array indices.
ObjectKeys(obj) == [i \in 1..Len(obj) |-> obj[i][1]]

\* ------------------------------------------------------------- JSON
LBracket == <<"[">>
RBracket == <<"]">>
LBrace == <<"{">>
RBrace == <<"}">>

Member(k, v) == <<"m", k, v>>

\* JSON.stringify of an object
StringifyObject(obj) ==
  <<LBrace>> \o [i \in 1..Len(obj) |-> Member(obj[i][1], obj[i][2])] \o <<RBrace>>

RECURSIVE StringifyItems(_)
StringifyItems(arr) ==
  IF arr = <<>> THEN <<>>
  ELSE StringifyObject(Head(arr)) \o StringifyItems(Tail(arr))

\* JSON.stringify of an array of objects
JSONstringify(arr) == <<LBracket>> \o StringifyItems(arr) \o <<RBracket>>

\* JSON.parse of an array of objects: scans the tokens between the brackets;
\* cur is the object being read, acc the objects read so far.
RECURSIVE ParseItems(_, _, _, _)
ParseItems(text, i, cur, acc) ==
  IF i > Len(text) \/ text[i] = RBracket THEN acc
  ELSE IF text[i] = LBrace THEN ParseItems(text, i + 1, <<>>, acc)
  ELSE IF text[i] = RBrace THEN ParseItems(text, i + 1, <<>>, Append(acc, cur))
  ELSE ParseItems(text, i + 1, SetProp(cur, text[i][2], text[i][3]), acc)

JSONparse(text) == ParseItems(text, 2, <<>>, <<>>)

\* ------------------------------------------------------------- KV
Keys == {"clients", "tasks"}

\* DB.get(key): null for a key never written.
Absent == [present |-> FALSE, text |-> <<>>]

DBget(key) == store[key]

\* kvJson(DB, key, fallback): v ? JSON.parse(v) : fallback
kvJson(v, fallback) ==
  IF v.present /\ v.text # <<>> THEN JSONparse(v.text) ELSE fallback

\* a read that creates the missing key: DB.put(key, "[]")
AfterReadCreates(key) ==
  IF store[key].present THEN store
  ELSE [store EXCEPT ![key] = [present |-> TRUE, text |-> JSONstringify(<<>>)]]

\* the namespace after kvJson(DB, key, fallback): it only calls DB.get
AfterRead(key) == store

\* ------------------------------------------------------------- responses
\* A header that is not set is the empty string.
NoHeaders ==
  [ContentType |-> "", AllowOrigin |-> "", AllowCredentials |-> "",
   AllowHeaders |-> "", AllowMethods |-> ""]

NoResp == [status |-> 0, body |-> <<>>, headers |-> NoHeaders]

\* json(obj, status): text is JSON.stringify(obj)
json(text, status) ==
  [status |-> status, body |-> text,
   headers |-> [NoHeaders EXCEPT !.ContentType = "application/json"]]

\* corsHeaders(origin); a missing Origin header and an empty one are both falsy.
corsHeaders(origin) ==
  [AllowOrigin |-> IF origin # "" THEN origin ELSE "*",
   AllowCredentials |-> "true",
   AllowHeaders |-> "Content-Type, Authorization",
   AllowMethods |-> "GET,POST,OPTIONS"]

\* withCors(resp, request)
withCors(r, request) ==
  LET c == corsHeaders(IF request.origin # "" THEN request.origin ELSE "*")
  IN  [r EXCEPT !.headers =
         [@ EXCEPT !.AllowOrigin = c.AllowOrigin,
                   !.AllowCredentials = c.AllowCredentials,
                   !.AllowHeaders = c.AllowHeaders,
                   !.AllowMethods = c.AllowMethods]]

\* new Response(null, { headers: corsHeaders(Origin) })
Preflight(request) ==
  LET c == corsHeaders(request.origin)
  IN  [status |-> 200, body |-> <<>>,
       headers |-> [ContentType |-> "", AllowOrigin |-> c.AllowOrigin,
                    AllowCredentials |-> c.AllowCredentials,
                    AllowHeaders |-> c.AllowHeaders,
                    AllowMethods |-> c.AllowMethods]]

\* new Response("Not found", { status: 404 })
NotFound ==
  [status |-> 404, body |-> <<<<"text", "Not found">>>>,
   headers |-> [NoHeaders EXCEPT !.ContentType = "text/plain;charset=UTF-8"]]

OkTrue == StringifyObject(<<<<"ok", TRUE>>>>)
AuthFailed == StringifyObject(<<<<"error", "auth_failed">>>>)
DemoToken == StringifyObject(<<<<"ok", TRUE>>, <<"token", "demo-token">>>>)

\* ------------------------------------------------------------- request bodies
\* request.json(): a body is text that is not JSON ("malformed"), the JSON
\* text null, or the JSON text of an object (val).
Malformed == [kind |-> "malformed", val |-> <<>>]
JsonNull == [kind |-> "null", val |-> <<>>]
JsonObject(o) == [kind |-> "object", val |-> o]

\* await request.json().catch(() => ({}))
jsonOrEmpty(body) == IF body.kind = "malformed" THEN JsonObject(<<>>) ELSE body

\* ------------------------------------------------------------- strings as codes
Newline == 10
EqualsSign == 61

HASH == <<104, 97, 115, 104>>
WebAppData == <<87, 101, 98, 65, 112, 112, 68, 97, 116, 97>>

\* a < b in UTF-16 code unit order, the default order of Array.prototype.sort
RECURSIVE LexLess(_, _)
LexLess(a, b) ==
  IF b = <<>> THEN FALSE
  ELSE IF a = <<>> THEN TRUE
  ELSE IF Head(a) # Head(b) THEN Head(a) < Head(b)
  ELSE LexLess(Tail(a), Tail(b))

RECURSIVE InsertSorted(_, _)
InsertSorted(k, s) ==
  IF s = <<>> THEN <<k>>
  ELSE IF LexLess(Head(s), k) THEN <<Head(s)>> \o InsertSorted(k, Tail(s))
  ELSE <<k>> \o s

RECURSIVE SortedAcc(_, _)
SortedAcc(keys, acc) ==
  IF keys = <<>> THEN acc ELSE SortedAcc(Tail(keys), InsertSorted(Head(keys), acc))

\* the keys left in insertion order
SortNone(keys) == keys

\* keys.sort()
Sort(keys) == SortedAcc(keys, <<>>)

\* lines.join("\n")
RECURSIVE Join(_)
Join(lines) ==
  IF lines = <<>> THEN <<>>
  ELSE IF Len(lines) = 1 THEN Head(lines)
  ELSE Head(lines) \o <<Newline>> \o Join(Tail(lines))

\* HMAC-SHA-256 narrowed to one byte: a keyed digest of the message bytes.
RECURSIVE Mix(_, _)
Mix(h, bytes) ==
  IF bytes = <<>> THEN h ELSE Mix((h * 31 + Head(bytes) + 7) % 256, Tail(bytes))

HmacSha256(key, message) == <<Mix(Mix(0, key), message)>>

HexDigit(n) == IF n < 10 THEN 48 + n ELSE 87 + n

\* [...bytes].map((b) => b.toString(16).padStart(2, "0")).join("")
RECURSIVE Hex(_)
Hex(bytes) ==
  IF bytes = <<>> THEN <<>>
  ELSE <<HexDigit(Head(bytes) \div 16), HexDigit(Head(bytes) % 16)>> \o Hex(Tail(bytes))

\* ------------------------------------------------------------- authenticator
\* body?.initData: def is FALSE for undefined; q is the list of decoded pairs that
\* new URLSearchParams(initData) yields (no pair for the empty string).
InitDataOf(body) ==
  IF body.kind = "object" /\ Has(body.val, "initData")
  THEN [def |-> TRUE, q |-> Get(body.val, "initData")]
  ELSE [def |-> FALSE, q |-> <<>>]

\* the string signed: sorted keys, k=v lines joined by a newline
Canonical(data) ==
  LET keys == Sort(ObjectKeys(data))
  IN  Join([i \in 1..Len(keys) |-> keys[i] \o <<EqualsSign>> \o Get(data, keys[i])])

Signature(data, botToken) ==
  Hex(HmacSha256(HmacSha256(WebAppData, botToken), Canonical(data)))

\* accepts a payload that carries no hash: if (hash && hex !== hash) return false
validateOpen(initData, botToken) ==
  IF ~initData.def \/ initData.q = <<>> THEN FALSE
  ELSE LET all == ObjectFromEntries(initData.q)
       IN  Has(all, HASH) => Signature(DelProp(all, HASH), botToken) = Get(all, HASH)

validateWebAppData(initData, botToken) ==
  IF ~initData.def \/ initData.q = <<>> THEN FALSE
  ELSE LET all == ObjectFromEntries(initData.q)
           data == DelProp(all, HASH)
       IN  /\ Has(all, HASH)
           /\ Signature(data, botToken) = Get(all, HASH)

\* ------------------------------------------------------------- webhook
Space == 32
Slash == 47

StartCommand == <<Slash, 115, 116, 97, 114, 116>>

IsSpace(c) == c \in {9, Newline, 13, Space}

RECURSIVE TrimStart(_)
TrimStart(s) ==
  IF s # <<>> /\ IsSpace(Head(s)) THEN TrimStart(Tail(s)) ELSE s

RECURSIVE TrimEnd(_)
TrimEnd(s) ==
  IF s # <<>> /\ IsSpace(s[Len(s)]) THEN TrimEnd(SubSeq(s, 1, Len(s) - 1)) ELSE s

\* String.prototype.trim
Trim(s) == TrimEnd(TrimStart(s))

\* m?.chat?.id of a message object; 0 stands for undefined (both are falsy)
ChatIdOf(m) ==
  IF Has(m, "chat") /\ Has(Get(m, "chat"), "id") THEN Get(Get(m, "chat"), "id") ELSE 0

\* update.message?.chat?.id || update.edited_message?.chat?.id ||
\* update.callback_query?.message?.chat?.id
chatId(update) ==
  LET a == IF Has(update, "message") THEN ChatIdOf(Get(update, "message")) ELSE 0
      b == IF Has(update, "edited_message")
           THEN ChatIdOf(Get(update, "edited_message")) ELSE 0
      c == IF Has(update, "callback_query") /\ Has(Get(update, "callback_query"), "message")
           THEN ChatIdOf(Get(Get(update, "callback_query"), "message")) ELSE 0
  IN  IF a # 0 THEN a ELSE IF b # 0 THEN b ELSE c

\* update.message?.text?.trim(); the empty string stands for undefined
text(update) ==
  IF Has(update, "message") /\ Has(Get(update, "message"), "text")
  THEN Trim(Get(Get(update, "message"), "text"))
  ELSE <<>>

replyText(update) ==
  IF text(update) = StartCommand THEN "welcome" ELSE "prompt"

\* the call tgSend(env, "sendMessage", {chat_id, text, reply_markup}) makes
tgSend(e, update) ==
  [url |-> <<"https://api.telegram.org/bot", e.BOT_TOKEN, "/sendMessage">>,
   chat_id |-> chatId(update), text |-> replyText(update), web_app |-> e.FRONTEND_URL]

\* request.json() of the webhook has no catch: a body that is not JSON rejects,
\* and update.message of null throws.
BotThrows(body) == body.kind # "object"

\* ------------------------------------------------------------- router
Collections == {"/api/crm/clients", "/api/tasks"}

KeyOf(path) == IF path = "/api/crm/clients" THEN "clients" ELSE "tasks"

\* the chain of conditions of fetch(), in order
Route(q) ==
  IF q.method = "OPTIONS" THEN "preflight"
  ELSE IF q.path = "/health" THEN "health"
  ELSE IF q.path = "/bot" /\ q.method = "POST" THEN "bot"
  ELSE IF q.path = "/api/auth/telegram" /\ q.method = "POST" THEN "auth"
  ELSE IF q.path = "/api/crm/clients" /\ q.method = "GET" THEN "get"
  ELSE IF q.path = "/api/crm/clients" /\ q.method = "POST" THEN "post"
  ELSE IF q.path = "/api/tasks" /\ q.method = "GET" THEN "get"
  ELSE IF q.path = "/api/tasks" /\ q.method = "POST" THEN "post"
  ELSE "notfound"

\* POST /api/auth/telegram
AuthTelegram(q, e) ==
  IF validateWebAppData(InitDataOf(jsonOrEmpty(q.body)), e.BOT_TOKEN)
  THEN withCors(json(DemoToken, 200), q)
  ELSE withCors(json(AuthFailed, 401), q)

\* Date.now()
DateNow == clock

\* clients.push(item)
Push(arr, item) == arr \o <<item>>

\* the collection replaced by the new record alone
OnlyItem(arr, item) == <<item>>

\* clients.unshift(item)
Unshift(arr, item) == <<item>> \o arr

\* { id: Date.now(), ...body }
NewItem(now, body) ==
  Spread(<<<<"id", now>>>>, jsonOrEmpty(body).val)

\* ------------------------------------------------------------- state
NoReq == [method |-> "", path |-> "", origin |-> "", body |-> Malformed]
NoLoc == [raw |-> Absent, clients |-> <<>>, item |-> <<>>, blob |-> <<>>]

Tokens == {<<116>>, <<117>>}

Init ==
  /\ env = [BOT_TOKEN |-> <<116>>, FRONTEND_URL |-> "https://app.test"]
  /\ store = [k \in Keys |-> Absent]
  /\ clock = 1
  /\ outbox = {}
  /\ pc = [r \in Reqs |-> "idle"]
  /\ req = [r \in Reqs |-> NoReq]
  /\ loc = [r \in Reqs |-> NoLoc]
  /\ resp = [r \in Reqs |-> NoResp]

Finish(r, response) ==
  /\ pc' = [pc EXCEPT ![r] = "done"]
  /\ resp' = [resp EXCEPT ![r] = response]
  /\ loc' = [loc EXCEPT ![r] = NoLoc]

Throw(r) ==
  /\ pc' = [pc EXCEPT ![r] = "fault"]
  /\ resp' = [resp EXCEPT ![r] = NoResp]
  /\ loc' = [loc EXCEPT ![r] = NoLoc]

Await(r, at, locals) ==
  /\ pc' = [pc EXCEPT ![r] = at]
  /\ resp' = [resp EXCEPT ![r] = NoResp]
  /\ loc' = [loc EXCEPT ![r] = locals]

\* GET of a collection: const clients = await kvJson(env.DB, key, []);
\* return withCors(json(clients), request)
GetCollection(r, q) ==
  Finish(r, withCors(json(JSONstringify(kvJson(DBget(KeyOf(q.path)), <<>>)), 200), q))

\* POST of a collection up to Date.now(): the body is parsed and
\* await kvJson(env.DB, key, []) resolves with the value stored at that moment
ReadCollection(r, q) ==
  LET v == DBget(KeyOf(q.path))
  IN  Await(r, "mint", [NoLoc EXCEPT !.raw = v, !.clients = kvJson(v, <<>>)])

\* fetch(request, env), as far as it runs before it waits for the network or
\* reads the clock; requests are numbered in the order they arrive
Fetch(r, q) ==
  /\ pc[r] = "idle"
  /\ \A s \in Reqs : s < r => pc[s] # "idle"
  /\ Route(q) = "post" => Len(kvJson(DBget(KeyOf(q.path)), <<>>)) < MaxLen
  /\ req' = [req EXCEPT ![r] = q]
  /\ CASE Route(q) = "preflight" -> Finish(r, Preflight(q)) /\ UNCHANGED outbox
       [] Route(q) = "health" -> Finish(r, json(OkTrue, 200)) /\ UNCHANGED outbox
       [] Route(q) = "bot" ->
            IF BotThrows(q.body) THEN Throw(r) /\ UNCHANGED outbox
            ELSE IF chatId(q.body.val) # 0
            THEN Await(r, "send", NoLoc) /\ outbox' = outbox \cup {tgSend(env, q.body.val)}
            ELSE Finish(r, json(OkTrue, 200)) /\ UNCHANGED outbox
       [] Route(q) = "auth" -> Finish(r, AuthTelegram(q, env)) /\ UNCHANGED outbox
       [] Route(q) = "get" -> GetCollection(r, q) /\ UNCHANGED outbox
       [] Route(q) = "post" -> ReadCollection(r, q) /\ UNCHANGED outbox
       [] OTHER -> Finish(r, NotFound) /\ UNCHANGED outbox
  /\ store' = IF Route(q) \in {"get", "post"} THEN AfterRead(KeyOf(q.path)) ELSE store
  /\ UNCHANGED <<env, clock>>

\* await tgSend(...) settles: the platform answers 2xx, answers an error status,
\* or the fetch rejects; only a rejection throws.
SendOutcomes == {"ok", "http_error", "reject"}

TgSettle(r, outcome) ==
  /\ pc[r] = "send"
  /\ IF outcome = "reject" THEN Throw(r) ELSE Finish(r, json(OkTrue, 200))
  /\ UNCHANGED <<env, store, clock, outbox, req>>

\* const item = {id: Date.now(), ...body}; clients.unshift(item);
\* env.DB.put(key, JSON.stringify(clients)) is called
Mint(r) ==
  /\ pc[r] = "mint"
  /\ LET item == NewItem(DateNow, req[r].body)
         list == Unshift(loc[r].clients, item)
     IN  loc' = [loc EXCEPT ![r] =
                   [@ EXCEPT !.clients = list, !.item = item, !.blob = JSONstringify(list)]]
  /\ pc' = [pc EXCEPT ![r] = "put"]
  /\ UNCHANGED <<env, store, clock, outbox, req, resp>>

\* a put that prepends the head of blob to whatever is stored by then
DBputMerged(old, blob) ==
  [present |-> TRUE,
   text |-> JSONstringify(<<Head(JSONparse(blob))>> \o kvJson(old, <<>>))]

\* what env.DB.put(key, blob) leaves under the key
DBput(old, blob) == [present |-> TRUE, text |-> blob]

\* json({ id: item.id })
IdReply(item) == json(StringifyObject(<<<<"id", Get(item, "id")>>>>), 200)

\* the put takes effect and the handler returns withCors(json({id: item.id}), request)
KvPut(r) ==
  /\ pc[r] = "put"
  /\ store' = [store EXCEPT ![KeyOf(req[r].path)] = DBput(@, loc[r].blob)]
  /\ pc' = [pc EXCEPT ![r] = "done"]
  /\ resp' = [resp EXCEPT ![r] = withCors(IdReply(loc[r].item), req[r])]
  /\ UNCHANGED <<env, clock, outbox, req, loc>>

\* the wall clock advances
Tick ==
  /\ clock < MaxClock
  /\ clock' = clock + 1
  /\ UNCHANGED <<env, store, outbox, pc, req, loc, resp>>

\* the runtime drops a finished request; its slot takes the next one
Close(r) ==
  /\ pc[r] \in {"done", "fault"}
  /\ pc' = [pc EXCEPT ![r] = "idle"]
  /\ req' = [req EXCEPT ![r] = NoReq]
  /\ resp' = [resp EXCEPT ![r] = NoResp]
  /\ loc' = [loc EXCEPT ![r] = NoLoc]
  /\ UNCHANGED <<env, store, clock, outbox>>

\* ------------------------------------------------------------- requests
Origins == {"", "https://x.test"}

Record(name) == JsonObject(<<<<"name", name>>>>)
RecordWithId(name, id) == JsonObject(<<<<"name", name>>, <<"id", id>>>>)

StoreBodies == {Malformed, Record(7), RecordWithId(7, 0)}

StoreRequests ==
  [method : {"GET"}, path : Collections, origin : {"https://x.test"}, body : {Malformed}]
  \cup [method : {"POST"}, path : Collections, origin : {"https://x.test"}, body : StoreBodies]

\* concurrent reads and appends on the two collections
Next ==
  \/ \E r \in Reqs : \E q \in StoreRequests : Fetch(r, q)
  \/ \E r \in Reqs : Mint(r)
  \/ \E r \in Reqs : KvPut(r)
  \/ Tick

Spec == Init /\ [][Next]_vars

\* ------------------------------------------------------------- router workload
Methods == {"GET", "POST", "OPTIONS", "DELETE"}
Paths == {"/health", "/bot", "/api/auth/telegram", "/nope"} \cup Collections

Chat(id) == <<"chat", <<<<"id", id>>>>>>
Text(t) == <<"text", t>>

BotUpdates ==
  { <<>>,
    <<<<"message", <<Chat(42), Text(StartCommand)>>>>>>,
    <<<<"message", <<Chat(42), Text(<<Space>> \o StartCommand \o <<Newline>>)>>>>>>,
    <<<<"message", <<Chat(42), Text(<<104, 105>>)>>>>>>,
    <<<<"message", <<Chat(42)>>>>>>,
    <<<<"message", <<Text(StartCommand)>>>>>>,
    <<<<"edited_message", <<Chat(7)>>>>>>,
    <<<<"callback_query", <<<<"message", <<Chat(8)>>>>>>>>>>,
    <<<<"message", <<Chat(0)>>>>, <<"edited_message", <<Chat(7)>>>>>> }

A == <<97>>
B == <<98>>
One == <<49>>
Two == <<50>>

InitData(q) == JsonObject(<<<<"initData", q>>>>)

SignedData == {<<<<A, One>>>>, <<<<A, One>>, <<B, One>>>>}

Signed(data, token) == Append(data, <<HASH, Signature(data, token)>>)

RouterRequests ==
  [method : Methods, path : Paths, origin : Origins, body : {Malformed, JsonNull}]
  \cup [method : {"POST"}, path : {"/bot"}, origin : Origins,
        body : {JsonObject(u) : u \in BotUpdates}]
  \cup [method : {"POST"}, path : {"/api/auth/telegram"}, origin : Origins,
        body : {InitData(<<>>), InitData(<<<<A, One>>>>), InitData(Signed(<<<<A, One>>>>, <<116>>))}]

\* one request at a time, over every route
NextRouter ==
  \/ \E q \in RouterRequests : Fetch(1, q)
  \/ \E o \in SendOutcomes : TgSettle(1, o)
  \/ Mint(1)
  \/ KvPut(1)
  \/ Close(1)

SpecRouter == Init /\ [][NextRouter]_vars

\* ------------------------------------------------------------- auth workload
HashValues == {<<>>} \cup {Signature(d, t) : d \in SignedData, t \in Tokens}

QueryPairs == ({A, B} \X {One, Two}) \cup ({HASH} \X HashValues)

Queries == UNION {[1..n -> QueryPairs] : n \in 0..MaxPairs}

AuthRequests ==
  [method : {"POST"}, path : {"/api/auth/telegram"}, origin : {"https://x.test"},
   body : {Malformed, JsonNull, JsonObject(<<>>)} \cup {InitData(q) : q \in Queries}]

InitAuth ==
  /\ env \in [BOT_TOKEN : Tokens, FRONTEND_URL : {"https://app.test"}]
  /\ store = [k \in Keys |-> Absent]
  /\ clock = 1
  /\ outbox = {}
  /\ pc = [r \in Reqs |-> "idle"]
  /\ req = [r \in Reqs |-> NoReq]
  /\ loc = [r \in Reqs |-> NoLoc]
  /\ resp = [r \in Reqs |-> NoResp]

\* one POST /api/auth/telegram at a time
NextAuth ==
  \/ \E q \in AuthRequests : Fetch(1, q)
  \/ Close(1)

SpecAuth == InitAuth /\ [][NextAuth]_vars

\* ------------------------------------------------------------- properties
\* the collection a GET of key k would return
Stored(k) == kvJson(store[k], <<>>)

Ids(list) == [i \in 1..Len(list) |-> Get(list[i], "id")]

\* request r is an append to the collection under key k
IsPost(r, k) ==
  /\ pc[r] # "idle"
  /\ req[r].method = "POST"
  /\ req[r].path \in Collections
  /\ KeyOf(req[r].path) = k

IsGet(r, k) ==
  /\ pc[r] # "idle"
  /\ req[r].method = "GET"
  /\ req[r].path \in Collections
  /\ KeyOf(req[r].path) = k

\* the id a response {id: ...} carries
ReplyId(response) == response.body[2][3]

IsIdReply(response) ==
  /\ response.status = 200
  /\ Len(response.body) = 3
  /\ response.body[2][2] = "id"

\* r and s are the only appends to k that have written, and both read k before
\* it was ever written
Raced(k, r, s) ==
  /\ r # s
  /\ IsPost(r, k) /\ pc[r] = "done" /\ loc[r].raw = Absent
  /\ IsPost(s, k) /\ pc[s] = "done" /\ loc[s].raw = Absent
  /\ \A t \in Reqs \ {r, s} : IsPost(t, k) => pc[t] # "done"

\* C1: two appends to the same collection that both read it empty both answer
\* 200 {id}, and the collection they leave holds one record, not two: the later
\* put overwrites the earlier one.
C1_RaceLosesRecord ==
  \A k \in Keys : \A r, s \in Reqs :
    Raced(k, r, s) =>
      /\ IsIdReply(resp[r]) /\ IsIdReply(resp[s])
      /\ Len(Stored(k)) = 1

C1_Witness ==
  \E k \in Keys : \E r, s \in Reqs :
    Raced(k, r, s) /\ IsIdReply(resp[r]) /\ IsIdReply(resp[s]) /\ Len(Stored(k)) = 1

\* C2: an append whose put finds the collection as its read left it makes the
\* collection one record longer, the new record first and the earlier records
\* after it unchanged, and answers the id of the record a GET then returns first.
C2_AppendPrepends ==
  [][\A r \in Reqs :
       (pc[r] = "put" /\ pc'[r] = "done" /\ store[KeyOf(req[r].path)] = loc[r].raw) =>
         \A before \in {Stored(KeyOf(req[r].path))} :
         \A after \in {Stored(KeyOf(req[r].path))'} :
         \A get \in {withCors(json(JSONstringify(after), 200), req[r])} :
           /\ Len(after) = Len(before) + 1
           /\ Tail(after) = before
           /\ Head(after) = NewItem(Get(loc[r].item, "id"), req[r].body)
           /\ IsIdReply(resp'[r])
           /\ ReplyId(resp'[r]) = Get(Head(JSONparse(get.body)), "id")]_vars

C2_Witness ==
  \E r \in Reqs : \E k \in Keys :
    /\ IsPost(r, k) /\ pc[r] = "done"
    /\ loc[r].raw.present
    /\ store[k].text = loc[r].blob
    /\ Len(Stored(k)) >= 2
    /\ ReplyId(resp[r]) = Get(Head(Stored(k)), "id")

\* no append to k has put anything yet
NeverWritten(k) == \A r \in Reqs : IsPost(r, k) => pc[r] \in {"mint", "put"}

\* C9: while no append to a key has written, every GET of that key has answered
\* the empty sequence and the key is still absent from the namespace.
C9_ReadWritesNothing ==
  \A k \in Keys :
    NeverWritten(k) =>
      /\ store[k] = Absent
      /\ \A r \in Reqs :
           IsGet(r, k) /\ pc[r] = "done" =>
             resp[r].status = 200 /\ resp[r].body = <<LBracket, RBracket>>

C9_Witness ==
  \E k \in Keys : \E r, s \in Reqs :
    /\ r # s
    /\ NeverWritten(k)
    /\ IsGet(r, k) /\ pc[r] = "done"
    /\ IsGet(s, k) /\ pc[s] = "done"
    /\ store[k] = Absent

NonIncreasing(ids) == \A i, j \in 1..Len(ids) : i < j => ids[i] >= ids[j]

\* no request so far carried an id of its own
ServerIdsOnly ==
  \A r \in Reqs : pc[r] # "idle" => ~Has(jsonOrEmpty(req[r].body).val, "id")

\* C10: as long as no request body supplies an id, the ids of each stored
\* collection never increase from the first record to the last.
C10_MostRecentFirst ==
  ServerIdsOnly => \A k \in Keys : NonIncreasing(Ids(Stored(k)))

C10_Witness ==
  /\ ServerIdsOnly
  /\ \E k \in Keys :
       /\ Len(Stored(k)) >= 2
       /\ Ids(Stored(k))[1] > Ids(Stored(k))[2]

\* the origin a response must allow: the Origin header, or * without one
Allowed(q) == IF q.origin # "" THEN q.origin ELSE "*"

\* C3: every response with a JSON body carries Access-Control-Allow-Origin for
\* the request's origin.
C3_CorsOnEveryJson ==
  \A r \in Reqs :
    (pc[r] = "done" /\ req[r].method # "OPTIONS"
       /\ resp[r].headers.ContentType = "application/json") =>
      /\ resp[r].headers.AllowOrigin = Allowed(req[r])
      /\ resp[r].headers.AllowCredentials = "true"

RouteTable ==
  { <<"GET", "/health">>, <<"POST", "/bot">>, <<"POST", "/api/auth/telegram">>,
    <<"GET", "/api/crm/clients">>, <<"POST", "/api/crm/clients">>,
    <<"GET", "/api/tasks">>, <<"POST", "/api/tasks">> }

\* C4: a request that is not OPTIONS and whose method and path are not a row of
\* the route table is answered 404 "Not found".
C4_DispatchByTable ==
  \A r \in Reqs :
    (pc[r] = "done" /\ req[r].method # "OPTIONS"
       /\ <<req[r].method, req[r].path>> \notin RouteTable) =>
      resp[r] = NotFound

IsBot(r) == pc[r] # "idle" /\ req[r].method = "POST" /\ req[r].path = "/bot"

\* C5: every webhook request is answered 200 {ok: true}, whatever becomes of the
\* outbound send; stated for the requests whose body parses to an update, the
\* ones that reach the send.
C5_WebhookAlwaysOk ==
  \A r \in Reqs :
    (IsBot(r) /\ req[r].body.kind = "object") =>
      /\ pc[r] # "fault"
      /\ pc[r] = "done" => resp[r] = json(OkTrue, 200)

\* C6: a POST whose body is not JSON is handled as the empty object: the webhook
\* answers 200 {ok: true} and sends nothing, auth answers 401 auth_failed, and a
\* collection route appends a record that holds the id alone.
C6_MalformedBodyIsEmpty ==
  \A r \in Reqs :
    (pc[r] # "idle" /\ req[r].method = "POST" /\ req[r].body = Malformed) =>
      /\ pc[r] # "fault"
      /\ (req[r].path = "/bot" /\ pc[r] = "done") => resp[r] = json(OkTrue, 200)
      /\ req[r].path = "/bot" => pc[r] # "send"
      /\ (req[r].path = "/api/auth/telegram" /\ pc[r] = "done") =>
           resp[r] = withCors(json(AuthFailed, 401), req[r])
      /\ (req[r].path \in Collections /\ pc[r] \in {"put", "done"}) =>
           Len(loc[r].item) = 1 /\ Has(loc[r].item, "id")

IsAuth(r) ==
  pc[r] # "idle" /\ req[r].method = "POST" /\ req[r].path = "/api/auth/telegram"

\* the pairs of the initData of request r; none when it is missing
PairsOf(r) == InitDataOf(jsonOrEmpty(req[r].body)).q

HashAt(q) == {j \in 1..Len(q) : q[j][1] = HASH}

LastOf(S) == CHOOSE j \in S : \A i \in S : i <= j

\* C7: an auth request whose initData is missing, empty or without a hash pair
\* is answered 401 auth_failed and never faults; 200 with the demo token is
\* answered only when the hex signature of the other pairs equals the hash.
C7_FailsClosed ==
  \A r \in Reqs :
    IsAuth(r) =>
      LET q == PairsOf(r)
      IN  /\ pc[r] = "done"
          /\ HashAt(q) = {} => resp[r] = withCors(json(AuthFailed, 401), req[r])
          /\ resp[r].status # 401 =>
               /\ resp[r] = withCors(json(DemoToken, 200), req[r])
               /\ HashAt(q) # {}
               /\ Signature(DelProp(ObjectFromEntries(q), HASH), env.BOT_TOKEN)
                    = q[LastOf(HashAt(q))][2]

C7_Witness ==
  \E r \in Reqs :
    /\ IsAuth(r) /\ pc[r] = "done"
    /\ PairsOf(r) # <<>> /\ HashAt(PairsOf(r)) = {}
    /\ resp[r].status = 401

\* every reordering of the pairs q
Reorderings(q) ==
  {[i \in 1..Len(q) |-> q[f[i]]] : f \in Permutations(1..Len(q))}

DistinctKeys(q) == \A i, j \in 1..Len(q) : q[i][1] = q[j][1] => i = j

\* C8 as stated: whatever the pairs are, every reordering of them is answered as
\* the request was.
C8_OrderIndependent ==
  \A r \in Reqs :
    (IsAuth(r) /\ pc[r] = "done") =>
      \A p \in Reorderings(PairsOf(r)) :
        validateWebAppData([def |-> TRUE, q |-> p], env.BOT_TOKEN) = (resp[r].status = 200)

\* C8 amended: when no key occurs twice, every reordering of the pairs is
\* answered as the request was.
C8_OrderIndependentDistinct ==
  \A r \in Reqs :
    (IsAuth(r) /\ pc[r] = "done" /\ DistinctKeys(PairsOf(r))) =>
      \A p \in Reorderings(PairsOf(r)) :
        validateWebAppData([def |-> TRUE, q |-> p], env.BOT_TOKEN) = (resp[r].status = 200)

C8_Witness ==
  \E r \in Reqs :
    /\ IsAuth(r) /\ pc[r] = "done" /\ resp[r].status = 200
    /\ Len(PairsOf(r)) = 3 /\ DistinctKeys(PairsOf(r))
    /\ PairsOf(r)[1][1] = HASH /\ PairsOf(r)[2][1] = B

====
